---- MODULE Spec2Model ----
(***************************************************************************)
(* Model of js/app.js: the facet filter state, its "#!" hash encoding, the *)
(* match computation, the three rendered surfaces (counter, map, list),    *)
(* the country modal and the language switcher.                            *)
(*                                                                         *)
(* The theme toggle, which changes colours and calls render again, is not  *)
(* modelled.                                                               *)
(*                                                                         *)
(* A JavaScript string is modelled as a sequence of one-character strings, *)
(* so that encoding, decoding, splitting and case conversion are computed  *)
(* character by character as the browser computes them.  A JavaScript Set  *)
(* is modelled as a sequence without duplicates (insertion order).         *)
(***************************************************************************)
EXTENDS Integers, Sequences, FiniteSets, TLC

\* ------------------------------------------------------------------ strings

\* Printable ASCII, code points 32..126, in order: Ascii[i] has code i + 31.
\* The double quote, the backslash and the backtick are written by name.
Ascii ==
  << " ", "!", "dquote", "#", "$", "%", "&", "'", "(", ")", "*", "+", ",", "-", ".", "/",
     "0", "1", "2", "3", "4", "5", "6", "7", "8", "9", ":", ";", "<", "=", ">", "?",
     "@", "A", "B", "C", "D", "E", "F", "G", "H", "I", "J", "K", "L", "M", "N", "O",
     "P", "Q", "R", "S", "T", "U", "V", "W", "X", "Y", "Z", "[", "backslash", "]", "^", "_",
     "backtick", "a", "b", "c", "d", "e", "f", "g", "h", "i", "j", "k", "l", "m", "n", "o",
     "p", "q", "r", "s", "t", "u", "v", "w", "x", "y", "z", "{", "|", "}", "~" >>

Range(s) == { s[i] : i \in DOMAIN s }

AsciiChars == Range(Ascii)

\* Code point of a printable ASCII character.
OrdOf == [ c \in AsciiChars |-> 31 + (CHOOSE i \in DOMAIN Ascii : Ascii[i] = c) ]
Ord(c) == OrdOf[c]

\* Character of a byte; bytes outside printable ASCII are shown as one
\* stand-in character (the strings of this model never hold such a byte).
Chr(n) == IF n >= 32 /\ n <= 126 THEN Ascii[n - 31] ELSE "?"

HexDigits == << "0", "1", "2", "3", "4", "5", "6", "7", "8", "9", "A", "B", "C", "D", "E", "F" >>

HexChars == Range(HexDigits) \cup { "a", "b", "c", "d", "e", "f" }

IsHex(c) == c \in HexChars

\* Value of a hex digit of either case.
HexValOf ==
  [ c \in HexChars |->
      IF c \in Range(HexDigits)
        THEN (CHOOSE i \in DOMAIN HexDigits : HexDigits[i] = c) - 1
        ELSE OrdOf[c] - 87 ]
HexVal(c) == HexValOf[c]

IsUpper(c) == c \in AsciiChars /\ Ord(c) >= 65 /\ Ord(c) <= 90
IsLower(c) == c \in AsciiChars /\ Ord(c) >= 97 /\ Ord(c) <= 122
IsDigit(c) == c \in AsciiChars /\ Ord(c) >= 48 /\ Ord(c) <= 57

\* String.prototype.toUpperCase / toLowerCase on ASCII strings.
toUpperCase(s) == [ i \in DOMAIN s |-> IF IsLower(s[i]) THEN Chr(Ord(s[i]) - 32) ELSE s[i] ]
toLowerCase(s) == [ i \in DOMAIN s |-> IF IsUpper(s[i]) THEN Chr(Ord(s[i]) + 32) ELSE s[i] ]

\* String.prototype.startsWith.
startsWith(s, p) == Len(s) >= Len(p) /\ \A i \in DOMAIN p : s[i] = p[i]

\* String.prototype.slice(n).
slice(s, n) == IF n >= Len(s) THEN << >> ELSE SubSeq(s, n + 1, Len(s))

\* Index of the first occurrence of character c in s, 0 when there is none.
IndexOf(s, c) ==
  IF c \in Range(s) THEN CHOOSE i \in DOMAIN s : s[i] = c /\ \A j \in 1..(i - 1) : s[j] # c
  ELSE 0

\* String.prototype.split(c) for a one-character separator: "a,,b" gives
\* "a", "", "b"; the empty string gives one empty piece.
RECURSIVE split(_, _)
split(s, c) ==
  IF IndexOf(s, c) = 0 THEN << s >>
  ELSE << SubSeq(s, 1, IndexOf(s, c) - 1) >> \o split(slice(s, IndexOf(s, c)), c)

\* Array.prototype.join(c).
RECURSIVE join(_, _)
join(parts, c) ==
  IF parts = << >> THEN << >>
  ELSE IF Len(parts) = 1 THEN parts[1]
  ELSE parts[1] \o << c >> \o join(Tail(parts), c)

\* Characters encodeURIComponent leaves as they are.
Unreserved(c) ==
  IsUpper(c) \/ IsLower(c) \/ IsDigit(c) \/ c \in { "-", "_", ".", "!", "~", "*", "'", "(", ")" }

\* encodeURIComponent on ASCII strings: every other character becomes
\* "%" followed by the two upper-case hex digits of its code.
RECURSIVE encodeURIComponent(_)
encodeURIComponent(s) ==
  IF s = << >> THEN << >>
  ELSE (IF Unreserved(Head(s)) THEN << Head(s) >>
        ELSE << "%", HexDigits[(Ord(Head(s)) \div 16) + 1], HexDigits[(Ord(Head(s)) % 16) + 1] >>)
       \o encodeURIComponent(Tail(s))

\* A "%" at position i of s that starts a well-formed escape.
EscapeAt(s, i) == s[i] = "%" /\ i + 2 <= Len(s) /\ IsHex(s[i + 1]) /\ IsHex(s[i + 2])

EscapeByte(s, i) == 16 * HexVal(s[i + 1]) + HexVal(s[i + 2])

\* decodeURIComponent: [ok, val].  A "%" that does not start a well-formed
\* escape, or an escape that is not a complete UTF-8 sequence (here: any
\* byte above 127, as no string of the model holds a multi-byte sequence),
\* raises URIError: ok = FALSE.
RECURSIVE decodeURIComponent(_)
decodeURIComponent(s) ==
  IF s = << >> THEN [ ok |-> TRUE, val |-> << >> ]
  ELSE IF Head(s) # "%"
    THEN LET r == decodeURIComponent(Tail(s))
         IN  [ ok |-> r.ok, val |-> IF r.ok THEN << Head(s) >> \o r.val ELSE << >> ]
  ELSE IF ~EscapeAt(s, 1) \/ EscapeByte(s, 1) > 127
    THEN [ ok |-> FALSE, val |-> << >> ]
  ELSE LET r == decodeURIComponent(slice(s, 3))
       IN  [ ok |-> r.ok, val |-> IF r.ok THEN << Chr(EscapeByte(s, 1)) >> \o r.val ELSE << >> ]

\* ------------------------------------------------- URLSearchParams, hash

\* application/x-www-form-urlencoded decoding of one name or value, as
\* URLSearchParams does it: "+" is a space, a well-formed escape is its
\* byte, and a "%" that starts no well-formed escape stays as it is.
RECURSIVE FormDecode(_)
FormDecode(s) ==
  IF s = << >> THEN << >>
  ELSE IF Head(s) = "+" THEN << " " >> \o FormDecode(Tail(s))
  ELSE IF EscapeAt(s, 1) THEN << Chr(EscapeByte(s, 1)) >> \o FormDecode(slice(s, 3))
  ELSE << Head(s) >> \o FormDecode(Tail(s))

\* One "name=value" piece: split at the first "=", a piece without "=" is a
\* name with the empty value.
FormPair(seg) ==
  IF IndexOf(seg, "=") = 0 THEN [ name |-> FormDecode(seg), value |-> << >> ]
  ELSE [ name  |-> FormDecode(SubSeq(seg, 1, IndexOf(seg, "=") - 1)),
         value |-> FormDecode(slice(seg, IndexOf(seg, "="))) ]

\* new URLSearchParams(str): a leading "?" is dropped, the rest is split
\* at "&", empty pieces are skipped.  The list of pairs, in order.
URLSearchParams(str) ==
  LET body == IF str # << >> /\ Head(str) = "?" THEN Tail(str) ELSE str
      segs == SelectSeq(split(body, "&"), LAMBDA g : g # << >>)
  IN  [ i \in DOMAIN segs |-> FormPair(segs[i]) ]

\* params.get(name): the value of the first pair of that name, or null
\* (found = FALSE).
paramsGet(params, name) ==
  IF \E i \in DOMAIN params : params[i].name = name
    THEN [ found |-> TRUE,
           val |-> params[CHOOSE i \in DOMAIN params :
                            /\ params[i].name = name
                            /\ \A j \in 1..(i - 1) : params[j].name # name].value ]
    ELSE [ found |-> FALSE, val |-> << >> ]

\* Assigning v to window.location.hash and reading it back: a leading "#"
\* is dropped, the characters of the URL fragment percent-encode set are
\* escaped, and the getter gives "" for an empty fragment, else "#" and it.
RECURSIVE FragmentEscape(_)
FragmentEscape(s) ==
  IF s = << >> THEN << >>
  ELSE (IF Head(s) \in { " ", "dquote", "<", ">", "backtick" }
          THEN encodeURIComponent(<< Head(s) >>) ELSE << Head(s) >>)
       \o FragmentEscape(Tail(s))

setLocationHash(v) ==
  LET frag == FragmentEscape(IF v # << >> /\ Head(v) = "#" THEN Tail(v) ELSE v)
  IN  IF frag = << >> THEN << >> ELSE << "#" >> \o frag

\* ------------------------------------------------------------------ facets

k_cameras      == << "c", "a", "m", "e", "r", "a", "s" >>
k_driving      == << "d", "r", "i", "v", "i", "n", "g" >>
k_roadLine     == << "r", "o", "a", "d", "L", "i", "n", "e" >>
k_flagColor    == << "f", "l", "a", "g", "C", "o", "l", "o", "r" >>
k_flagPattern  == << "f", "l", "a", "g", "P", "a", "t", "t", "e", "r", "n" >>
k_alphabet     == << "a", "l", "p", "h", "a", "b", "e", "t" >>
k_scenery      == << "s", "c", "e", "n", "e", "r", "y" >>
k_uniqueLetter == << "u", "n", "i", "q", "u", "e", "L", "e", "t", "t", "e", "r" >>
k_years        == << "y", "e", "a", "r", "s" >>
k_country      == << "c", "o", "u", "n", "t", "r", "y" >>

\* The facet keys, in the order the code walks them.
FACETS ==
  << k_cameras, k_driving, k_roadLine, k_flagColor, k_flagPattern,
     k_alphabet, k_scenery, k_uniqueLetter, k_years >>

FacetKeys == Range(FACETS)

\* state after "init state": every facet an empty Set.
EmptyState == [ k \in FacetKeys |-> << >> ]

\* Set.prototype.add / delete on an insertion-ordered Set.
SetAdd(s, v) == IF v \in Range(s) THEN s ELSE Append(s, v)
SetDelete(s, v) == SelectSeq(s, LAMBDA x : x # v)

\* --------------------------------------------------------- hashbang codec

\* The "key=v1,v2" pieces of the facets from position i on.
RECURSIVE FacetParams(_, _)
FacetParams(st, i) ==
  IF i > Len(FACETS) THEN << >>
  ELSE (IF Len(st[FACETS[i]]) > 0
          THEN << encodeURIComponent(FACETS[i]) \o << "=" >>
                  \o join([ j \in DOMAIN st[FACETS[i]] |-> encodeURIComponent(st[FACETS[i]][j]) ], ",") >>
          ELSE << >>)
       \o FacetParams(st, i + 1)

\* serializeStateToHash(countryCode): the value window.location.hash has
\* afterwards.  No country is the empty string (null and "" are both falsy).
serializeStateToHash(st, countryCode) ==
  setLocationHash(
    << "#", "!" >>
    \o join(FacetParams(st, 1)
            \o (IF countryCode # << >>
                  THEN << k_country \o << "=" >> \o encodeURIComponent(countryCode) >>
                  ELSE << >>),
            "&"))

\* The forEach that adds decodeURIComponent(v) for each piece v to a Set:
\* [ok, set]; at the first piece that raises URIError it stops, the Set
\* holding what was added before.
RECURSIVE AddDecoded(_, _)
AddDecoded(parts, set) ==
  IF parts = << >> THEN [ ok |-> TRUE, set |-> set ]
  ELSE IF ~decodeURIComponent(Head(parts)).ok THEN [ ok |-> FALSE, set |-> set ]
  ELSE AddDecoded(Tail(parts), SetAdd(set, decodeURIComponent(Head(parts)).val))

\* The FACETS.forEach of parseHashToState from facet i on: [ok, state].
\* Each facet is cleared, then filled from its parameter when that is a
\* non-empty string; a URIError leaves the later facets untouched.
RECURSIVE ParseFacets(_, _, _)
ParseFacets(i, st, params) ==
  IF i > Len(FACETS) THEN [ ok |-> TRUE, state |-> st ]
  ELSE LET got == paramsGet(params, FACETS[i])
           r   == IF got.found /\ got.val # << >>
                    THEN AddDecoded(split(got.val, ","), << >>)
                    ELSE [ ok |-> TRUE, set |-> << >> ]
       IN  IF r.ok THEN ParseFacets(i + 1, [ st EXCEPT ![FACETS[i]] = r.set ], params)
           ELSE [ ok |-> FALSE, state |-> [ st EXCEPT ![FACETS[i]] = r.set ] ]

\* parseHashToState written as a loop over the parameters that indexes
\* state by each name: a name that is no facet key raises TypeError.
parseHashToStateStrict(h, st) ==
  IF ~startsWith(h, << "#", "!" >>)
    THEN [ applied |-> FALSE, ok |-> TRUE, state |-> st, country |-> << >> ]
  ELSE LET params == URLSearchParams(slice(h, 2))
           r      == ParseFacets(1, st, params)
           known  == \A i \in DOMAIN params : params[i].name \in FacetKeys \cup { k_country }
       IN  [ applied |-> TRUE, ok |-> r.ok /\ known, state |-> r.state,
             country |-> IF r.ok /\ known THEN paramsGet(params, k_country).val ELSE << >> ]

\* parseHashToState up to the modal: what it does to the filter state for
\* location hash h.
\*   applied: the hash starts with "#!" (otherwise nothing is touched),
\*   ok:      no URIError was raised,
\*   state:   the filter state afterwards,
\*   country: the "country" parameter, "" when there is none.
parseHashToState(h, st) ==
  IF ~startsWith(h, << "#", "!" >>)
    THEN [ applied |-> FALSE, ok |-> TRUE, state |-> st, country |-> << >> ]
  ELSE LET params == URLSearchParams(slice(h, 2))
           r      == ParseFacets(1, st, params)
       IN  [ applied |-> TRUE, ok |-> r.ok, state |-> r.state,
             country |-> IF r.ok THEN paramsGet(params, k_country).val ELSE << >> ]

\* ----------------------------------------------------------------- dataset

\* A facet attribute of a country record: absent, one scalar, or an array.
Absent      == [ kind |-> "absent", val |-> << >> ]
Scalar(v)   == [ kind |-> "scalar", val |-> v ]
Array(vs)   == [ kind |-> "array",  val |-> vs ]

NoAttrs == [ k \in FacetKeys |-> Absent ]

\* Two datasets (data/geoguessr-metas.json with data/world.geo.json) the
\* page may be served.  metas is the list of [code, name, attrs] entries in
\* key order; a map feature carries the four code properties the code
\* reads, "" for one that is missing.
Feature(a2, la2, a3, la3) == [ ISO_A2 |-> a2, iso_a2 |-> la2, ADM0_A3 |-> a3, iso_a3 |-> la3 ]

\* Upper-case keys; driving is a scalar, cameras an array that one record
\* lacks; the map has two features coded JP and one feature without a record.
DatasetA ==
  [ metas |->
      << [ code |-> << "F", "R" >>, name |-> "France",
           attrs |-> [ NoAttrs EXCEPT ![k_driving] = Scalar(<< "r" >>) ] ],
         [ code |-> << "J", "P" >>, name |-> "Japan",
           attrs |-> [ NoAttrs EXCEPT ![k_driving] = Scalar(<< "l" >>),
                                      ![k_cameras] = Array(<< << "m" >> >>) ] ] >>,
    geo |->
      << Feature(<< "F", "R" >>, << >>, << >>, << >>),
         Feature(<< "J", "P" >>, << >>, << >>, << >>),
         Feature(<< "J", "P" >>, << >>, << >>, << >>),
         Feature(<< >>, << >>, << "A", "T", "A" >>, << >>) >> ]

\* A lower-case key and a mixed-case key; cameras is an array in two
\* records and a scalar in the third.
DatasetB ==
  [ metas |->
      << [ code |-> << "j", "p" >>, name |-> "Japan",
           attrs |-> [ NoAttrs EXCEPT ![k_cameras] = Array(<< << "b" >>, << "m" >> >>) ] ],
         [ code |-> << "D", "e" >>, name |-> "Germany",
           attrs |-> [ NoAttrs EXCEPT ![k_cameras] = Scalar(<< "b" >>) ] ],
         [ code |-> << "I", "S" >>, name |-> "Iceland",
           attrs |-> [ NoAttrs EXCEPT ![k_cameras] = Array(<< << "b" >> >>) ] ] >>,
    geo |->
      << Feature(<< "J", "P" >>, << >>, << >>, << >>),
         Feature(<< >>, << "d", "e" >>, << >>, << >>),
         Feature(<< >>, << >>, << >>, << >>) >> ]

Datasets == { DatasetA, DatasetB }

\* metas[code]: the position of the entry whose key is code, 0 for undefined.
MetaIndex(m, code) ==
  IF \E i \in DOMAIN m : m[i].code = code THEN CHOOSE i \in DOMAIN m : m[i].code = code ELSE 0

\* !v for a facet attribute: undefined and the empty string are falsy, an
\* array (also an empty one) is truthy.
Falsy(a) == a.kind = "absent" \/ (a.kind = "scalar" /\ a.val = << >>)

\* getAllFacetValues(key): the values the checkboxes of a facet are built for.
getAllFacetValues(m, key) ==
  UNION { IF Falsy(m[i].attrs[key]) THEN { }
          ELSE IF m[i].attrs[key].kind = "array" THEN Range(m[i].attrs[key].val)
          ELSE { m[i].attrs[key].val } : i \in DOMAIN m }

\* The checkboxes buildFiltersFragment creates, as <<facet key, value>>
\* (their order on the page is not modelled); each variant gets its own.
Boxes(m) == UNION { { << k, v >> : v \in getAllFacetValues(m, k) } : k \in FacetKeys }

Variants == { "desktop", "mobile" }

\* ------------------------------------------------------------------- match

\* IncludesAll with "some" in place of "every": overlap instead of subset.
IncludesAny(vals, sel) == \E j \in DOMAIN sel : sel[j] \in Range(vals)

\* Array.prototype.every over the selected values of one facet.
IncludesAll(vals, sel) == \A j \in DOMAIN sel : sel[j] \in Range(vals)

\* matchesFrom with the "if (!val) return false" turned into a skip: a
\* country without a value passes an active facet.
RECURSIVE matchesFromAbsentPasses(_, _, _)
matchesFromAbsentPasses(attrs, st, i) ==
  IF i > Len(FACETS) THEN TRUE
  ELSE IF Len(st[FACETS[i]]) = 0 THEN matchesFromAbsentPasses(attrs, st, i + 1)
  ELSE IF Falsy(attrs[FACETS[i]]) THEN matchesFromAbsentPasses(attrs, st, i + 1)
  ELSE IF attrs[FACETS[i]].kind = "array"
    THEN IF IncludesAll(attrs[FACETS[i]].val, st[FACETS[i]])
           THEN matchesFromAbsentPasses(attrs, st, i + 1) ELSE FALSE
  ELSE IF attrs[FACETS[i]].val \in Range(st[FACETS[i]])
    THEN matchesFromAbsentPasses(attrs, st, i + 1) ELSE FALSE

\* matchesAllFilters(country), the loop over FACETS from position i on.
RECURSIVE matchesFrom(_, _, _)
matchesFrom(attrs, st, i) ==
  IF i > Len(FACETS) THEN TRUE
  ELSE IF Len(st[FACETS[i]]) = 0 THEN matchesFrom(attrs, st, i + 1)
  ELSE IF Falsy(attrs[FACETS[i]]) THEN FALSE
  ELSE IF attrs[FACETS[i]].kind = "array"
    THEN IF IncludesAll(attrs[FACETS[i]].val, st[FACETS[i]])
           THEN matchesFrom(attrs, st, i + 1) ELSE FALSE
  ELSE IF attrs[FACETS[i]].val \in Range(st[FACETS[i]])
    THEN matchesFrom(attrs, st, i + 1) ELSE FALSE

matchesAllFilters(attrs, st) == matchesFrom(attrs, st, 1)

\* The matches array of render: the entries of metas that match, in order.
computeMatches(m, st) == SelectSeq(m, LAMBDA e : matchesAllFilters(e.attrs, st))

\* ---------------------------------------------------------------------- map

\* The code onEachCountry computes for a feature.
featureCode(f) ==
  toLowerCase(IF f.ISO_A2 # << >> THEN f.ISO_A2
              ELSE IF f.iso_a2 # << >> THEN f.iso_a2
              ELSE IF f.ADM0_A3 # << >> THEN f.ADM0_A3
              ELSE f.iso_a3)

\* layersByCode after L.geoJSON has called onEachCountry for every feature
\* in order: <<code, layer>> pairs, a later feature of the same code
\* replacing the earlier one.  Layer i is the layer of feature i.
buildLayersByCode(geo) ==
  { << featureCode(geo[i]), i >> : i \in { j \in DOMAIN geo :
      \A l \in DOMAIN geo : l > j => featureCode(geo[l]) # featureCode(geo[j]) } }

\* recolorMap(matches): the style of every layer afterwards.  Every layer
\* of layersByCode is reset, and set matched when its code is the
\* lower-cased code of a match; a layer that is not in layersByCode keeps
\* the style it has.
recolorMap(styles, byCode, matches) ==
  LET matchCodes == { toLowerCase(matches[i].code) : i \in DOMAIN matches }
  IN  [ l \in DOMAIN styles |->
          IF \E p \in byCode : p[2] = l
            THEN IF \E p \in byCode : p[2] = l /\ p[1] \in matchCodes
                   THEN "matched" ELSE "baseline"
            ELSE styles[l] ]

\* updateCounters(n): the number and the label it is shown with.
updateCounters(n) == [ n |-> n, label |-> IF n = 1 THEN "match" ELSE "matches" ]

\* renderCountryList(matches): the codes of the cards and the translation
\* table their texts are taken from (the order of the cards is not modelled).
renderCountryList(matches, table) ==
  [ codes |-> { matches[i].code : i \in DOMAIN matches }, table |-> table ]

\* -------------------------------------------------------------------- modal

\* findCountry without the "|| metas[code]" fallback.
findCountryUpperOnly(m, code) == MetaIndex(m, toUpperCase(code))

\* The record lookup of showCountryModal: metas[code.toUpperCase()] ||
\* metas[code] || null, as a position in metas, 0 for null.
findCountry(m, code) ==
  IF MetaIndex(m, toUpperCase(code)) # 0 THEN MetaIndex(m, toUpperCase(code))
  ELSE MetaIndex(m, code)

NoModal == [ shown |-> FALSE, key |-> << >>, title |-> << >> ]

\* The modal as the user sees it: NoModal while it is hidden.
\* showCountryModal(code, updateHash) on hash h, modal md, nh registered
\* "hidden.bs.modal" handlers and filter state st: the three afterwards.
showCountryModal(m, code, updateHash, st, h, md, nh) ==
  IF findCountry(m, code) = 0 THEN [ hash |-> h, modal |-> md, handlers |-> nh ]
  ELSE [ hash     |-> IF updateHash THEN serializeStateToHash(st, code) ELSE h,
         modal    |-> [ shown |-> TRUE, key |-> m[findCountry(m, code)].code,
                        title |-> toUpperCase(code) ],
         handlers |-> nh + 1 ]

\* -------------------------------------------------------------------- state

VARIABLES
  phase,        \* "loading" until boot has run, "ready" after it, "dead" when a startup fetch failed
  metas,        \* the dataset, << >> until loaded
  worldGeo,     \* the map features, << >> until loaded
  hash,         \* window.location.hash
  state,        \* the filter state: facet key -> insertion-ordered Set
  checked,      \* variant -> the checkboxes of that variant that are checked
  layersByCode, \* the <<code, layer>> pairs of the Map layersByCode
  layerStyle,   \* layer -> "baseline" or "matched"
  counter,      \* the results counter, n = -1 until the first render
  list,         \* the rendered country list
  modal,        \* the country modal
  handlers,     \* number of registered "hidden.bs.modal" handlers
  lang,         \* the lang variable
  trMap,        \* the active translation table, named by its language
  pending,      \* languages of the translation fetches in flight, oldest first
  labels,       \* the translation table the facet titles and chips are labelled from
  link,         \* history: the link the page was opened with
  last          \* history: the handler that ran last, its input and the filter state before it

vars ==
  << phase, metas, worldGeo, hash, state, checked, layersByCode, layerStyle, counter,
     list, modal, handlers, lang, trMap, pending, labels, link, last >>

filterVars == << state, checked, layersByCode, layerStyle, counter, modal, handlers >>
langVars == << lang, trMap, pending, labels >>

DEFAULT_LANG == "en"

\* The languages of the language selector.
Langs == { "en", "fr" }

\* Translation fetches that may be in flight together.
MaxPending == 2

Unrendered == [ n |-> -1, label |-> "" ]
NoList == [ codes |-> { }, table |-> "" ]

NoLast == [ op |-> "none", pre |-> EmptyState, key |-> << >>, val |-> << >>,
            on |-> FALSE, code |-> << >>, err |-> FALSE ]

\* A hand-written fragment: a cameras list whose second value is a lone "%".
f_badEscape == << "#", "!" >> \o k_cameras \o << "=", "b", ",", "%" >>

\* The fragments the page is opened with.
BootFragments ==
  { << >>,
    f_badEscape,
    serializeStateToHash([ EmptyState EXCEPT ![k_years] = << << "z" >> >>], << >>),
    serializeStateToHash([ EmptyState EXCEPT ![k_cameras] = << << "m" >> >>], << "J", "P" >>) }

\* The fragments the user navigates to after boot.
NavFragments ==
  { serializeStateToHash([ EmptyState EXCEPT ![k_cameras] = << << "m" >> >>], << >>) }

NoLink == [ kind |-> "none", state |-> EmptyState, country |-> << >>, base |-> << >> ]

InitCommon ==
  /\ phase = "loading"
  /\ metas = << >>
  /\ worldGeo = << >>
  /\ state = EmptyState
  /\ checked = [ v \in Variants |-> { } ]
  /\ layersByCode = { }
  /\ layerStyle = << >>
  /\ counter = Unrendered
  /\ list = NoList
  /\ modal = NoModal
  /\ handlers = 0
  /\ lang = DEFAULT_LANG
  /\ trMap = ""
  /\ pending = << >>
  /\ labels = ""
  /\ last = NoLast

Init ==
  /\ InitCommon
  /\ hash \in BootFragments
  /\ link = NoLink

\* ------------------------------------------------------------------ actions

\* The checkboxes whose value is in the filter state (the restore loop of
\* parseHashToState), the same for both variants.
restoreChecked(m, st) ==
  [ v \in Variants |-> { b \in Boxes(m) : b[2] \in Range(st[b[1]]) } ]

\* clearState that leaves out the facet added last, years.
clearStateButYears(st) == [ k \in DOMAIN st |-> IF k = k_years THEN st[k] ELSE << >> ]

\* The FACETS.forEach of clearAll.
clearState(st) == [ k \in DOMAIN st |-> << >> ]

\* The Set update of onFacetToggle.
toggleState(st, key, val, on) ==
  [ st EXCEPT ![key] = IF on THEN SetAdd(st[key], val) ELSE SetDelete(st[key], val) ]

\* render(): the three surfaces are set from the matches of st.
Render(st, table) ==
  /\ counter' = updateCounters(Len(computeMatches(metas', st)))
  /\ layerStyle' = recolorMap(layerStyle, layersByCode, computeMatches(metas', st))
  /\ list' = renderCountryList(computeMatches(metas', st), table)

\* boot(), the three fetches having succeeded: the UI and the map are
\* built, the hash is parsed and the page is rendered.  When the parse
\* raises URIError the async function rejects (console.error): the
\* checkboxes are not restored, the modal is not shown, nothing is rendered.
Boot ==
  /\ phase = "loading"
  /\ \E d \in Datasets :
       LET r  == parseHashToState(hash, EmptyState)
           sm == IF r.ok /\ r.country # << >>
                   THEN showCountryModal(d.metas, r.country, FALSE, r.state, hash, NoModal, 0)
                   ELSE [ hash |-> hash, modal |-> NoModal, handlers |-> 0 ]
           base == [ l \in DOMAIN d.geo |-> "baseline" ]
       IN  /\ phase' = "ready"
           /\ metas' = d.metas
           /\ worldGeo' = d.geo
           /\ trMap' = DEFAULT_LANG
           /\ labels' = DEFAULT_LANG
           /\ layersByCode' = buildLayersByCode(d.geo)
           /\ state' = r.state
           /\ checked' = IF r.applied /\ r.ok THEN restoreChecked(d.metas, r.state) ELSE checked
           /\ hash' = sm.hash
           /\ modal' = sm.modal
           /\ handlers' = sm.handlers
           /\ IF r.ok
                THEN /\ counter' = updateCounters(Len(computeMatches(d.metas, r.state)))
                     /\ layerStyle' = recolorMap(base, buildLayersByCode(d.geo),
                                                 computeMatches(d.metas, r.state))
                     /\ list' = renderCountryList(computeMatches(d.metas, r.state), DEFAULT_LANG)
                ELSE /\ counter' = Unrendered
                     /\ layerStyle' = base
                     /\ list' = NoList
           /\ last' = [ NoLast EXCEPT !.op = "boot", !.code = r.country, !.err = ~r.ok ]
  /\ UNCHANGED << lang, pending, link >>

\* One of the three startup fetches fails: boot rejects before anything is
\* built, and the page stays without handlers.
BootFetchFail ==
  /\ phase = "loading"
  /\ phase' = "dead"
  /\ last' = [ NoLast EXCEPT !.op = "bootFetchFail", !.err = TRUE ]
  /\ UNCHANGED << metas, worldGeo, hash, filterVars, list, langVars, link >>

\* onFacetToggle: the user clicks checkbox b of variant v (the browser has
\* flipped its checked property before the handler runs).  While the modal
\* is shown its backdrop keeps clicks from the page behind it.
Toggle(v, b) ==
  /\ phase = "ready"
  /\ ~modal.shown
  /\ b \in Boxes(metas)
  /\ LET on == b \notin checked[v]
     IN  /\ checked' = [ checked EXCEPT ![v] = IF on THEN @ \cup { b } ELSE @ \ { b } ]
         /\ state' = toggleState(state, b[1], b[2], on)
         /\ hash' = serializeStateToHash(toggleState(state, b[1], b[2], on), << >>)
         /\ last' = [ NoLast EXCEPT !.op = "toggle", !.pre = state, !.key = b[1],
                                    !.val = b[2], !.on = on ]
  /\ UNCHANGED << metas, worldGeo, layersByCode >>
  /\ Render(state', trMap)
  /\ UNCHANGED << phase, modal, handlers, langVars, link >>

\* clearAll: either "Clear all" button.
ClearAll ==
  /\ phase = "ready"
  /\ ~modal.shown
  /\ state' = clearState(state)
  /\ checked' = [ v \in Variants |-> { } ]
  /\ hash' = serializeStateToHash(clearState(state), << >>)
  /\ last' = [ NoLast EXCEPT !.op = "clearAll", !.pre = state ]
  /\ UNCHANGED << metas, worldGeo, layersByCode >>
  /\ Render(state', trMap)
  /\ UNCHANGED << phase, modal, handlers, langVars, link >>

\* The click handler of layer i: showCountryModal(code, true).
MapClick(i) ==
  /\ phase = "ready"
  /\ ~modal.shown
  /\ i \in DOMAIN worldGeo
  /\ LET sm == showCountryModal(metas, featureCode(worldGeo[i]), TRUE, state, hash, modal, handlers)
     IN  /\ hash' = sm.hash
         /\ modal' = sm.modal
         /\ handlers' = sm.handlers
  /\ last' = [ NoLast EXCEPT !.op = "mapClick", !.code = featureCode(worldGeo[i]) ]
  /\ UNCHANGED << phase, metas, worldGeo, state, checked, layersByCode, layerStyle,
                  counter, list, langVars, link >>

\* The modal is closed: every registered "hidden.bs.modal" handler runs
\* serializeStateToHash() and removes itself.
ModalHidden ==
  /\ phase = "ready"
  /\ modal.shown
  /\ modal' = NoModal
  /\ hash' = IF handlers > 0 THEN serializeStateToHash(state, << >>) ELSE hash
  /\ handlers' = 0
  /\ last' = [ NoLast EXCEPT !.op = "modalHidden" ]
  /\ UNCHANGED << phase, metas, worldGeo, state, checked, layersByCode, layerStyle,
                  counter, list, langVars, link >>

\* The user navigates to fragment h of the open page (address bar, link,
\* history).  The page registers no "hashchange" listener: only
\* window.location.hash changes.
HashChange(h) ==
  /\ phase = "ready"
  /\ h # hash
  /\ hash' = h
  /\ last' = [ NoLast EXCEPT !.op = "hashChange" ]
  /\ UNCHANGED << phase, metas, worldGeo, filterVars, list, langVars, link >>

\* The change handler of the language selector up to its await:
\* loadLang(code) sets lang and starts the fetch.
LangSelect(code) ==
  /\ phase = "ready"
  /\ Len(pending) < MaxPending
  /\ lang' = code
  /\ pending' = Append(pending, code)
  /\ last' = [ NoLast EXCEPT !.op = "langSelect" ]
  /\ UNCHANGED << phase, metas, worldGeo, hash, filterVars, list, trMap, labels, link >>

\* The fetch at position i of pending completes and its handler resumes:
\* trMap is the fetched table, the UI is relabelled, the page is rendered.
LangFetchDone(i) ==
  /\ phase = "ready"
  /\ i \in DOMAIN pending
  /\ trMap' = pending[i]
  /\ labels' = pending[i]
  /\ pending' = [ j \in 1..(Len(pending) - 1) |-> IF j < i THEN pending[j] ELSE pending[j + 1] ]
  /\ last' = [ NoLast EXCEPT !.op = "langFetchDone" ]
  /\ UNCHANGED << metas, worldGeo, layersByCode >>
  /\ Render(state, pending[i])
  /\ UNCHANGED << phase, hash, state, checked, modal, handlers, lang, link >>

ToggleStep == \E v \in Variants, b \in Boxes(metas) : Toggle(v, b)
MapClickStep == \E i \in DOMAIN worldGeo : MapClick(i)
HashChangeStep == \E h \in NavFragments : HashChange(h)
LangSelectStep == \E code \in Langs : LangSelect(code)
LangFetchDoneStep == \E i \in DOMAIN pending : LangFetchDone(i)

\* The filter UI, the map and the URL.
Next ==
  \/ Boot
  \/ BootFetchFail
  \/ ToggleStep
  \/ ClearAll
  \/ MapClickStep
  \/ ModalHidden
  \/ HashChangeStep

Spec == Init /\ [][Next]_vars

\* The sessions whose boot raises no error: the page is opened with a
\* fragment that decodes.
InitWellFormed ==
  /\ InitCommon
  /\ hash \in BootFragments \ { f_badEscape }
  /\ link = NoLink

SpecWellFormed == InitWellFormed /\ [][Next]_vars

\* The language switcher, with a re-render between switches.
NextLang ==
  \/ Boot
  \/ LangSelectStep
  \/ LangFetchDoneStep
  \/ ClearAll

SpecLang == Init /\ [][NextLang]_vars

\* ------------------------------------------------------- opening a link

\* Longest value of a link's filter state.
MaxValLen == 2

\* The characters of those values: a letter, a digit and the characters
\* the encoding reserves.
CodecChars == { "a", "2", ",", "%", "&", "=", "+" }

CodecValues == UNION { [ 1..n -> CodecChars ] : n \in 1..MaxValLen }

\* Filter states a link is made from: one value, two values of one facet,
\* values of two facets.
CodecStates ==
  { [ EmptyState EXCEPT ![k_cameras] = << v >> ] : v \in CodecValues }
  \cup { [ EmptyState EXCEPT ![k_driving] = << << "l" >>, v >> ] : v \in CodecValues \ { << "l" >> } }
  \cup { [ EmptyState EXCEPT ![k_cameras] = << v >>, ![k_years] = << << "z" >> >> ] : v \in CodecValues }

CodecCountries == { << >>, << "j", "p" >> }

\* Segments whose key is no facet key and not "country".
ExtraSegments ==
  { << "z", "=", "1" >>,
    << "C", "a", "m", "e", "r", "a", "s", "=", "q" >>,
    << "x", "=", "%" >> }

\* Fragment base with segment seg put first or last.
WithSegment(base, seg, front) ==
  IF slice(base, 2) = << >> THEN << "#", "!" >> \o seg
  ELSE IF front THEN << "#", "!" >> \o seg \o << "&" >> \o slice(base, 2)
  ELSE base \o << "&" >> \o seg

\* The page is opened with a link made by serializeStateToHash in another
\* session: as it is ("plain"), with a segment of an unknown key added
\* ("extra"), or with the "#!" sentinel taken off ("noSentinel").
InitCodec ==
  /\ InitCommon
  /\ \E s \in CodecStates, c \in CodecCountries :
       \/ /\ link = [ kind |-> "plain", state |-> s, country |-> c,
                      base |-> serializeStateToHash(s, c) ]
          /\ hash = serializeStateToHash(s, c)
       \/ /\ s[k_cameras] # << >> /\ s[k_years] = << >>
          /\ link = [ kind |-> "extra", state |-> s, country |-> c,
                      base |-> serializeStateToHash(s, c) ]
          /\ \E seg \in ExtraSegments, front \in BOOLEAN :
               hash = WithSegment(serializeStateToHash(s, c), seg, front)
       \/ /\ s[k_cameras] # << >> /\ s[k_years] = << >>
          /\ link = [ kind |-> "noSentinel", state |-> s, country |-> c,
                      base |-> serializeStateToHash(s, c) ]
          /\ hash = setLocationHash(slice(serializeStateToHash(s, c), 2))

NextCodec ==
  \/ Boot
  \/ BootFetchFail
  \/ ModalHidden

SpecCodec == InitCodec /\ [][NextCodec]_vars

\* -------------------------------------------------------------- properties

Codes(entries) == { entries[i].code : i \in DOMAIN entries }

SameCode(a, b) == toLowerCase(a) = toLowerCase(b)

Rendered == counter.n # -1

\* The code and the record of the focused country the detail view shows
\* are those of code c.
Focused(c) == modal.shown /\ modal.title = toUpperCase(c) /\ SameCode(modal.key, c)

\* C1: opening the fragment serializeStateToHash made for a filter state and
\* an optional focused country restores, for every facet, the same set of
\* selected values and the same focused country, and raises no error.
C1_HashRoundTrip ==
  (last.op = "boot" /\ link.kind = "plain") =>
    /\ ~last.err
    /\ \A k \in FacetKeys : Range(state[k]) = Range(link.state[k])
    /\ last.code = link.country
    /\ (link.country # << >> => Focused(link.country))

\* The test of one facet as the match rule states it: no constraint for an
\* empty selection, the subset test for a sequence, membership for a scalar,
\* exclusion when the country has no value.
PassesFacet(attrs, st, k) ==
  \/ st[k] = << >>
  \/ attrs[k].kind = "array" /\ Range(st[k]) \subseteq Range(attrs[k].val)
  \/ attrs[k].kind = "scalar" /\ attrs[k].val \in Range(st[k])

\* C2: a country matches iff it passes the test of every facet, and the
\* rendered match result is exactly the set of the countries that do.
C2_MatchRule ==
  phase = "ready" =>
    /\ \A i \in DOMAIN metas :
         matchesAllFilters(metas[i].attrs, state)
           <=> \A k \in FacetKeys : PassesFacet(metas[i].attrs, state, k)
    /\ Rendered =>
         list.codes = { metas[i].code : i \in { j \in DOMAIN metas :
                          \A k \in FacetKeys : PassesFacet(metas[j].attrs, state, k) } }

\* A render with two values selected in one facet that excludes some
\* country but not all.
C2_Witness ==
  /\ Rendered
  /\ \E k \in FacetKeys : Len(state[k]) = 2
  /\ list.codes # { }
  /\ list.codes # Codes(metas)

\* What render shows for the empty filter state is the whole dataset.
EmptyMatchesAll == (Rendered /\ state = EmptyState) => list.codes = Codes(metas)

\* C3 as stated: the empty filter state matches the whole dataset, and
\* after a toggle-on the match result is a subset of the one before it.
C3_Monotone ==
  /\ EmptyMatchesAll
  /\ (last.op = "toggle" /\ last.on) =>
       list.codes \subseteq Codes(computeMatches(metas, last.pre))

\* C3 amended: the empty filter state matches the whole dataset, and a
\* country that is in the match result after a toggle-on but was not in it
\* before stores a scalar for the toggled facet, whose selection was not
\* empty before; every other country stays out.
C3_MonotoneAmended ==
  /\ EmptyMatchesAll
  /\ (last.op = "toggle" /\ last.on) =>
       \A i \in DOMAIN metas :
         (metas[i].code \in list.codes /\ ~matchesAllFilters(metas[i].attrs, last.pre))
           => (metas[i].attrs[last.key].kind = "scalar" /\ last.pre[last.key] # << >>)

\* A toggle-on in a facet with a selection that removes a country.
C3_Witness ==
  /\ last.op = "toggle" /\ last.on
  /\ last.pre[last.key] # << >>
  /\ list.codes \subseteq Codes(computeMatches(metas, last.pre))
  /\ list.codes # Codes(computeMatches(metas, last.pre))

\* C4: for every facet value the desktop and the mobile checkbox have the
\* same checked state, which is the membership of the value in the filter state.
C4_VariantsInSync ==
  phase = "ready" =>
    \A b \in Boxes(metas) :
      /\ (b \in checked["desktop"]) <=> (b \in checked["mobile"])
      /\ (b \in checked["desktop"]) <=> (b[2] \in Range(state[b[1]]))

\* C5: after a render every feature layer has the matched style iff its
\* code is the lower-cased code of a country of the match result, and the
\* counter shows the size of the match result.
C5_MapConsistent ==
  Rendered =>
    /\ \A l \in DOMAIN worldGeo :
         layerStyle[l] = IF \E c \in list.codes : toLowerCase(c) = featureCode(worldGeo[l])
                           THEN "matched" ELSE "baseline"
    /\ counter.n = Cardinality(list.codes)

\* C6: after the fragment has changed to a structured-state fragment, the
\* filter state is the one decoded from it and the surfaces show its matches.
C6_HashNavigation ==
  (last.op = "hashChange" /\ startsWith(hash, << "#", "!" >>)) =>
    /\ state = parseHashToState(hash, state).state
    /\ list.codes = Codes(computeMatches(metas, parseHashToState(hash, state).state))
    /\ counter.n = Len(computeMatches(metas, parseHashToState(hash, state).state))

\* showCountryModal has just been called with last'.code.
ModalCalled == last'.op = "mapClick" \/ (last'.op = "boot" /\ last'.code # << >>)

\* showCountryModal did nothing.
ModalNoOp ==
  /\ modal' = modal
  /\ handlers' = handlers
  /\ hash' = hash
  /\ last'.op = "mapClick" => state' = state

\* C7 as stated: a code that equals a dataset key when case is ignored
\* shows that record; any other code is a no-op.
C7_Lookup ==
  [][ ModalCalled =>
        IF \E i \in DOMAIN metas' : SameCode(metas'[i].code, last'.code)
          THEN modal'.shown /\ SameCode(modal'.key, last'.code)
          ELSE ModalNoOp ]_vars

\* C7 amended: the record is found iff a dataset key equals the upper-cased
\* code or the code as passed (the upper-cased one first); any other code,
\* also one that differs from a key in case only, is a no-op.
C7_LookupAmended ==
  [][ ModalCalled =>
        IF MetaIndex(metas', toUpperCase(last'.code)) # 0
          THEN modal'.shown /\ modal'.key = toUpperCase(last'.code) /\ handlers' = handlers + 1
        ELSE IF MetaIndex(metas', last'.code) # 0
          THEN modal'.shown /\ modal'.key = last'.code /\ handlers' = handlers + 1
        ELSE ModalNoOp ]_vars

\* A map click whose lower-case code is found under a lower-case key.
C7_Witness ==
  /\ last.op = "mapClick"
  /\ modal.shown
  /\ modal.key = last.code
  /\ modal.key # toUpperCase(last.code)

\* C8: a fragment with an added segment of an unknown key is decoded as the
\* fragment without it is: the same selection sets, the same focused
\* country, no failure the fragment without it does not raise; a fragment
\* without the "#!" sentinel leaves the filter state and the checkboxes as
\* they are.
C8_DecodeTolerance ==
  /\ (last.op = "boot" /\ link.kind = "extra") =>
       /\ state = parseHashToState(link.base, EmptyState).state
       /\ last.err = ~parseHashToState(link.base, EmptyState).ok
       /\ last.code = parseHashToState(link.base, EmptyState).country
       /\ ~last.err => checked = restoreChecked(metas, state)
  /\ (last.op = "boot" /\ link.kind = "noSentinel") =>
       /\ state = EmptyState
       /\ \A v \in Variants : checked[v] = { }
       /\ ~last.err
       /\ ~modal.shown

\* A fragment with an added segment has restored a selection and the
\* focused country.
C8_Witness ==
  /\ last.op = "boot" /\ link.kind = "extra"
  /\ ~last.err
  /\ state[k_cameras] # << >>
  /\ modal.shown
  /\ hash # link.base

\* C9: after clearAll every selection set is empty, every checkbox of both
\* variants is unchecked, the fragment carries no facet segment and the
\* rendered match result is the whole dataset.
C9_ClearAll ==
  last.op = "clearAll" =>
    /\ \A k \in FacetKeys : state[k] = << >>
    /\ \A v \in Variants : checked[v] = { }
    /\ hash = << "#", "!" >>
    /\ Rendered
    /\ list.codes = Codes(metas)
    /\ counter.n = Len(metas)

\* clearAll has run on a filter state restored from a hash that held a
\* value no checkbox exists for.
C9_Witness ==
  /\ last.op = "clearAll"
  /\ \E k \in FacetKeys : \E j \in DOMAIN last.pre[k] : << k, last.pre[k][j] >> \notin Boxes(metas)

\* C10: once no translation fetch is pending, the active translation table
\* is that of the language selected last, and the labels and the rendered
\* texts come from it.
C10_LangNoRace ==
  (phase = "ready" /\ pending = << >>) =>
    /\ trMap = lang
    /\ labels = lang
    /\ Rendered => list.table = lang

====
